---- MODULE Spec2Model ----
(***************************************************************************)
(* Lemire's nearly-divisionless bounded sampler (UniformUint32 / Uint32n)  *)
(* of akalin/random, driven the way the repository's tests drive it: a     *)
(* source is built, and the sampler is called on it a number of times      *)
(* while the reference loop uniformUint32Simple and the documented         *)
(* straightforward algorithm SlowUniformUint32 run on copies of the same   *)
(* source.                                                                 *)
(*                                                                         *)
(* The draw width is NumBits instead of 32, as in the tests' own           *)
(* generalisation uniformUint(src, n, numBits): a uint32 is a value        *)
(* modulo 2^NumBits, a uint64 a value modulo 2^(2*NumBits), and an int64   *)
(* returned by Int63 is a value below 2^(2*NumBits-1).                     *)
(***************************************************************************)
EXTENDS Integers, Sequences, FiniteSets, TLC

\* Width of a draw and of n in bits (32 in the code).
NumBits == 3
\* Longest list of values a testSource is built with.
MaxDraws == 2
\* Number of successive calls the driver makes on one source.
MaxCalls == 3
\* Number of calls TestUintformUint32MatchesSimple makes (10000 in the code).
MaxStrictCalls == 6
\* Number of iterations of the rejection loop that are followed.
MaxIter == 4

RECURSIVE Pow2(_)
Pow2(k) == IF k = 0 THEN 1 ELSE 2 * Pow2(k - 1)

\* 2^W: one more than the largest uint32.
TwoW == Pow2(NumBits)

\* The values of a uint32.
Draws == 0 .. (TwoW - 1)

\* "No value": a call that has not returned, a threshold not yet computed.
NoValue == -1

(***************************************************************************)
(* Machine arithmetic.                                                     *)
(***************************************************************************)

\* uint32(x): truncation to the low W bits.
Uint32(x) == x % TwoW

\* -n on a uint32: wraparound negation.
Neg(m) == (TwoW - m) % TwoW

\* The operands multiplied as uint32: v * n, wrapping at W bits.
ProdNarrow(x, m) == (x * m) % TwoW

\* uint64(v) * uint64(n), a 2W-bit product.
Prod(x, m) == (x * m) % (TwoW * TwoW)

\* uint32(prod): the low W bits of the product.
Low(p) == Uint32(p)

\* High with the shift one bit short.
HighShiftShort(p) == Uint32(p \div (TwoW \div 2))

\* uint32(prod >> 32): the high W bits of the product.
High(p) == Uint32(p \div TwoW)

(***************************************************************************)
(* Sources.                                                                *)
(***************************************************************************)

RECURSIVE Tapes(_)
Tapes(k) == IF k = 0 THEN {<< >>}
            ELSE Tapes(k - 1) \cup
                 {Append(t, x) : t \in {s \in Tapes(k - 1) : Len(s) = k - 1}, x \in Draws}

\* testSource{vs: vs}: callCount starts at 0.
TestSource(vs) ==
  [kind |-> "test", vs |-> vs, callCount |-> 0, i |-> 0, panicked |-> FALSE]

\* descendingSource{i: i}.
DescendingSource(i) ==
  [kind |-> "descending", vs |-> << >>, callCount |-> 0, i |-> i, panicked |-> FALSE]

\* sequentialSource{i: i}.
SequentialSource(i) ==
  [kind |-> "sequential", vs |-> << >>, callCount |-> 0, i |-> i, panicked |-> FALSE]

\* A Source that yields x for ever.
ConstantSource(x) ==
  [kind |-> "constant", vs |-> << >>, callCount |-> 0, i |-> x, panicked |-> FALSE]

\* testSource.Int63: the next value of vs shifted up by W-1 bits, or a panic
\* when none is left.
Int63(s) ==
  IF s.callCount >= Len(s.vs)
    THEN [ok |-> FALSE, x |-> 0, src |-> [s EXCEPT !.panicked = TRUE]]
    ELSE [ok |-> TRUE,
          x |-> s.vs[s.callCount + 1] * Pow2(NumBits - 1),
          src |-> [s EXCEPT !.callCount = s.callCount + 1]]

\* The low W bits of an Int63 value instead of the top ones.
randUint32Low(x) == Uint32(x)

\* randUint32: the top W bits of an Int63 value.
randUint32(x) == Uint32(x \div Pow2(NumBits - 1))

\* descendingSource.Uint32: decrement i (wrapping), return it.
DescendingUint32(s) ==
  LET j == (s.i + TwoW - 1) % TwoW
  IN  [ok |-> TRUE, v |-> j, src |-> [s EXCEPT !.i = j]]

\* sequentialSource.Uint32: return i, then increment it (wrapping).
SequentialUint32(s) ==
  [ok |-> TRUE, v |-> s.i, src |-> [s EXCEPT !.i = (s.i + 1) % TwoW]]

\* A Source whose Uint32 returns the same value at every call.
ConstantUint32(s) == [ok |-> TRUE, v |-> s.i, src |-> s]

\* A draw that returns the source's next value and leaves it in the source.
DrawPeek(s) ==
  IF s.kind = "test"
    THEN [ok |-> s.callCount < Len(s.vs),
          v |-> IF s.callCount < Len(s.vs) THEN s.vs[s.callCount + 1] ELSE 0,
          src |-> s]
    ELSE [ok |-> TRUE, v |-> s.i, src |-> s]

\* One draw from a source, as the sampler sees it: a uint32 and the source's
\* new state, or the source's panic.
Draw(s) ==
  CASE s.kind = "test" ->
         LET r == Int63(s)
         IN  [ok |-> r.ok, v |-> IF r.ok THEN randUint32(r.x) ELSE 0, src |-> r.src]
    [] s.kind = "sequential" -> SequentialUint32(s)
    [] s.kind = "constant" -> ConstantUint32(s)
    [] OTHER -> DescendingUint32(s)

(***************************************************************************)
(* The reference algorithms, each run to the end of one call.              *)
(***************************************************************************)

\* The outcome of a whole call: the value returned or the panic that ended
\* it, and the source as the call left it.
Returned(u, s) == [status |-> "returned", out |-> u, src |-> s]
Panicked(s) == [status |-> "panicked", out |-> NoValue, src |-> s]

\* for { v := src.Uint32(); ...; if low >= thresh { return high } }
RECURSIVE SimpleLoop(_, _, _)
SimpleLoop(s, m, thresh) ==
  LET d == Draw(s)
      p == Prod(d.v, m)
  IN  IF ~d.ok THEN Panicked(d.src)
      ELSE IF Low(p) >= thresh THEN Returned(High(p), d.src)
      ELSE SimpleLoop(d.src, m, thresh)

\* uniformUint32Simple: thresh := uint32(-n) % uint32(n), then the loop.
\* With n == 0 the remainder is Go's integer-divide-by-zero panic.
uniformUint32Simple(s, m) ==
  IF m = 0 THEN Panicked(s) ELSE SimpleLoop(s, m, Neg(m) % m)

\* uniformUint32_simple, the reference of TestUintformUint32MatchesSimple:
\* for { v := src.Uint32(); ...; if low > thresh { return high } }
RECURSIVE StrictLoop(_, _, _)
StrictLoop(s, m, thresh) ==
  LET d == Draw(s)
      p == Prod(d.v, m)
  IN  IF ~d.ok THEN Panicked(d.src)
      ELSE IF Low(p) > thresh THEN Returned(High(p), d.src)
      ELSE StrictLoop(d.src, m, thresh)

\* thresh := uint32(-n) % uint32(n), then the loop.
uniformUint32_simple(s, m) ==
  IF m = 0 THEN Panicked(s) ELSE StrictLoop(s, m, Neg(m) % m)

\* while True { v := src.Uint32(); if v < threshold { return v % n } }
RECURSIVE SlowLoop(_, _, _)
SlowLoop(s, m, cutoff) ==
  LET d == Draw(s)
  IN  IF ~d.ok THEN Panicked(d.src)
      ELSE IF d.v < cutoff THEN Returned(d.v % m, d.src)
      ELSE SlowLoop(d.src, m, cutoff)

\* SlowUniformUint32: threshold := 2^W - (2^W % n), then the loop.
SlowUniformUint32(s, m) ==
  IF m = 0 THEN Panicked(s) ELSE SlowLoop(s, m, TwoW - (TwoW % m))

(***************************************************************************)
(* The sampler, UniformUint32.                                             *)
(***************************************************************************)

VARIABLES
  n,          \* the bound the driver passes to every call
  src,        \* the source the sampler draws from (src2 of the tests)
  ref,        \* uniformUint32Simple's last outcome and its source (src1)
  slow,       \* SlowUniformUint32's last outcome and its source
  pc,         \* where the sampler is
  v,          \* the sampler's locals
  prod,
  low,
  threshold,
  result,     \* the value the current call returned, or NoValue
  draws,      \* draws the current call has consumed
  calls,      \* calls the driver has made
  tv,         \* the exhaustive test's loop variable: the next first draw to try
  trials,     \* what the exhaustive test saw for each first draw tried so far
  cs,         \* the callers of the parallel tests: each one's bounds, source and locals
  stored      \* what the storage of each caller's threshold holds

vars == <<n, src, ref, slow, pc, v, prod, low, threshold, result, draws, calls,
          tv, trials, cs, stored>>

\* The guard left out, as in the function's earliest versions.
ZeroBoundUnguarded(m) == FALSE

\* if n == 0 { panic(...) }
ZeroBound(m) == m = 0

\* The first iteration not pulled out of the loop: the threshold always
\* computed, as in the loop of the documentation.
FastAcceptNever(lo, m) == FALSE

\* The first draw always accepted: BiasedUint32 of the documentation.
FastAcceptBiased(lo, m) == TRUE

\* if low >= n: the first draw is accepted without the threshold.
FastAccept(lo, m) == lo >= m

\* The threshold without its remainder: -n instead of -n % n.
ThresholdNoRemainder(m) == Neg(m)

\* threshold := -n % n
Threshold(m) == Neg(m) % m

\* The comparison made strict, as in uniformUint32_simple.
AcceptStrict(lo, th) == lo > th

\* if low >= threshold
Accept(lo, th) == lo >= th

\* The panic recovered and the draw tried again.
UnwindRetry(at) == at

\* A panic of src.Uint32() inside the sampler: nothing recovers it, the call
\* is unwound.
Unwind(at) == "srcpanic"

Sources ==
  {TestSource(vs) : vs \in Tapes(MaxDraws)} \cup {DescendingSource(i) : i \in Draws}

\* makeTestSource(rejectionCount, v): rejectionCount zeros, then v, then the
\* largest uint32, which is always accepted.
makeTestSource(rejectionCount, x) ==
  TestSource([k \in 1 .. rejectionCount |-> 0] \o <<x, TwoW - 1>>)

\* The sources of the tests: short tapes, the tapes makeTestSource builds for
\* every rejectionCount and v, and the descending source.
FairSources ==
  {TestSource(vs) : vs \in Tapes(MaxDraws - 1)}
    \cup {makeTestSource(r, x) : r \in 0 .. (MaxDraws - 1), x \in Draws}
    \cup {DescendingSource(i) : i \in Draws}

InitWith(ns, srcs) ==
  /\ n \in ns
  /\ src \in srcs
  /\ ref = [status |-> "idle", out |-> NoValue, src |-> src]
  /\ slow = [status |-> "idle", out |-> NoValue, src |-> src]
  /\ pc = "idle"
  /\ v = 0
  /\ prod = 0
  /\ low = 0
  /\ threshold = NoValue
  /\ result = NoValue
  /\ draws = 0
  /\ calls = 0
  /\ tv = 0
  /\ trials = << >>

\* The parallel callers: two of them.
Callers == {1, 2}

\* A caller that has not called yet: the bounds ns it will call the sampler
\* with, one call after the other, its own source s, and the sampler's locals.
NewCaller(ns, s) ==
  [ns |-> ns, k |-> 0, n |-> 0, src |-> s, pc |-> "idle",
   v |-> 0, prod |-> 0, low |-> 0, result |-> NoValue, draws |-> 0]

\* No parallel test is running: no caller, no threshold stored.
NoCallers == cs = << >> /\ stored = << >>

\* Successive calls on one source, for any n.
Init == InitWith(Draws, Sources) /\ NoCallers

\* The exhaustive test, for n := 1; n < 1<<numBits.
InitExhaust == InitWith(1 .. (TwoW - 1), {makeTestSource(0, 0)}) /\ NoCallers

\* Two callers in parallel, one call each, each on a source of its own: the
\* first with any n and any first draw, the second with any valid n and a
\* first draw of 0.
InitConc ==
  /\ InitWith({1}, {makeTestSource(0, 0)})
  /\ \E n1 \in Draws, x \in Draws, n2 \in 1 .. (TwoW - 1) :
       cs = [self \in Callers |->
               IF self = 1 THEN NewCaller(<<n1>>, makeTestSource(0, x))
               ELSE NewCaller(<<n2>>, makeTestSource(0, 0))]
  /\ stored = [self \in Callers |-> NoValue]

\* One caller making two calls, with any two valid n, on one source built by
\* makeTestSource.
InitSeq ==
  /\ InitWith({1}, {makeTestSource(0, 0)})
  /\ \E n1 \in 1 .. (TwoW - 1), n2 \in 1 .. (TwoW - 1),
        r \in 0 .. (MaxDraws - 1), x \in Draws :
       cs = [self \in Callers |->
               IF self = 1 THEN NewCaller(<<n1, n2>>, makeTestSource(r, x))
               ELSE NewCaller(<< >>, TestSource(<< >>))]
  /\ stored = [self \in Callers |-> NoValue]

\* Successive calls on one of the tests' sources, for any n.
InitFair == InitWith(Draws, FairSources) /\ NoCallers

\* TestUintformUint32MatchesSimple: var src1, src2 sequentialSource, for any
\* n >= 1.
InitStrict == InitWith(1 .. (TwoW - 1), {SequentialSource(0)}) /\ NoCallers

\* A call on a source that yields one value for ever, for any n.
InitLoop == InitWith(Draws, {ConstantSource(x) : x \in Draws}) /\ NoCallers

\* A call of a variant without the n == 0 guard, for any n.
InitUnguarded == InitWith(Draws, FairSources) /\ NoCallers

\* A driver calls UniformUint32(src, n), with zero whether the n == 0 guard
\* fires, and r and s what its references give on their own copies of the
\* source. A guard that fires panics before anything else happens.
CallWith(zero, r, s) ==
  /\ pc \in {"idle", "done"}
  /\ calls' = calls + 1
  /\ v' = 0 /\ prod' = 0 /\ low' = 0
  /\ threshold' = NoValue
  /\ result' = NoValue
  /\ draws' = 0
  /\ IF zero
       THEN /\ pc' = "panicked"
            /\ UNCHANGED <<ref, slow>>
       ELSE /\ pc' = "first"
            /\ ref' = IF ref.status = "panicked" THEN ref ELSE r
            /\ slow' = IF slow.status = "panicked" THEN slow ELSE s
  /\ UNCHANGED <<n, src, tv, trials, cs, stored>>

\* The driver calls UniformUint32(src, n); the references are run on their
\* own copies of the source.
Call ==
  /\ calls < MaxCalls
  /\ CallWith(ZeroBound(n), uniformUint32Simple(ref.src, n),
              SlowUniformUint32(slow.src, n))

\* The unrolled first iteration: draw, multiply, and return high when
\* low >= n.
FirstDraw ==
  /\ pc = "first"
  /\ LET d == Draw(src)
         p == Prod(d.v, n)
     IN  /\ src' = d.src
         /\ IF ~d.ok
              THEN /\ pc' = Unwind(pc)
                   /\ UNCHANGED <<v, prod, low, result, draws>>
              ELSE /\ v' = d.v
                   /\ prod' = p
                   /\ low' = Low(p)
                   /\ draws' = draws + 1
                   /\ IF FastAccept(Low(p), n)
                        THEN pc' = "done" /\ result' = High(p)
                        ELSE pc' = "thresh" /\ result' = result
  /\ UNCHANGED <<n, ref, slow, threshold, calls, tv, trials, cs, stored>>

\* threshold := -n % n; return high when low >= threshold.
ComputeThreshold ==
  /\ pc = "thresh"
  /\ threshold' = Threshold(n)
  /\ IF Accept(low, Threshold(n))
       THEN pc' = "done" /\ result' = High(prod)
       ELSE pc' = "loop" /\ result' = result
  /\ UNCHANGED <<n, src, ref, slow, v, prod, low, draws, calls, tv, trials, cs, stored>>

\* One iteration of the rejection loop.
LoopDraw ==
  /\ pc = "loop"
  /\ LET d == Draw(src)
         p == Prod(d.v, n)
     IN  /\ src' = d.src
         /\ IF ~d.ok
              THEN /\ pc' = Unwind(pc)
                   /\ UNCHANGED <<v, prod, low, result, draws>>
              ELSE /\ v' = d.v
                   /\ prod' = p
                   /\ low' = Low(p)
                   /\ draws' = draws + 1
                   /\ IF Accept(Low(p), threshold)
                        THEN pc' = "done" /\ result' = High(p)
                        ELSE pc' = "loop" /\ result' = result
  /\ UNCHANGED <<n, ref, slow, threshold, calls, tv, trials, cs, stored>>

\* testUniformUint, top of the loop body: for v < 1<<numBits, build
\* makeTestSource(0, v) and call the sampler on it; the straightforward
\* algorithm is run on a source built the same way.
StartTrial ==
  /\ pc = "idle"
  /\ tv < TwoW
  /\ src' = makeTestSource(0, tv)
  /\ slow' = SlowUniformUint32(makeTestSource(0, tv), n)
  /\ pc' = "first"
  /\ v' = 0 /\ prod' = 0 /\ low' = 0
  /\ threshold' = NoValue
  /\ result' = NoValue
  /\ draws' = 0
  /\ UNCHANGED <<n, ref, calls, tv, trials, cs, stored>>

\* testUniformUint, rest of the loop body: the call has returned u and left
\* src.callCount; note both and go on to the next v.
EndTrial ==
  /\ pc = "done"
  /\ trials' = Append(trials, [u |-> result, callCount |-> src.callCount,
                               su |-> slow.out, scallCount |-> slow.src.callCount])
  /\ tv' = tv + 1
  /\ pc' = "idle"
  /\ UNCHANGED <<n, src, ref, slow, v, prod, low, threshold, result, draws, calls, cs, stored>>

(***************************************************************************)
(* The sampler as each parallel caller runs it: the same statements, on the *)
(* caller's own locals.                                                     *)
(***************************************************************************)

\* The threshold kept in storage shared by every call.
ThresholdCellShared(self) == 1

\* threshold is a local of the call: every caller has its own.
ThresholdCell(self) == self

\* The threshold computed only when the storage holds none yet.
StoreThresholdCached(old, m) == IF old = NoValue THEN Threshold(m) ELSE old

\* threshold := -n % n assigns the local, whatever its storage held.
StoreThreshold(old, m) == Threshold(m)

\* Entry of the caller's next call: if n == 0 { panic(...) }.
Enter(c) ==
  LET m == c.ns[c.k + 1]
  IN  [c EXCEPT !.k = c.k + 1, !.n = m, !.v = 0, !.prod = 0, !.low = 0,
                !.result = NoValue, !.draws = 0,
                !.pc = IF ZeroBound(m) THEN "panicked" ELSE "first"]

\* One draw and the product: v = src.Uint32(); prod = uint64(v) * uint64(n);
\* low = uint32(prod); then return uint32(prod >> 32) or go on: the unrolled
\* first iteration tests low >= n, the loop low >= threshold (t).
DrawStep(c, t, first) ==
  LET d == Draw(c.src)
      p == Prod(d.v, c.n)
      accepted == IF first THEN FastAccept(Low(p), c.n) ELSE Accept(Low(p), t)
  IN  IF ~d.ok
        THEN [c EXCEPT !.src = d.src, !.pc = Unwind(c.pc)]
        ELSE [c EXCEPT !.src = d.src, !.v = d.v, !.prod = p, !.low = Low(p),
                       !.draws = c.draws + 1,
                       !.pc = IF accepted THEN "done"
                              ELSE IF first THEN "thresh" ELSE "loop",
                       !.result = IF accepted THEN High(p) ELSE c.result]

\* The caller's next step, with t what its threshold's storage holds: the
\* caller and the storage after the step.
StepCaller(c, t) ==
  CASE c.pc = "first" -> [c |-> DrawStep(c, t, TRUE), t |-> t]
    [] c.pc = "thresh" ->
         LET nt == StoreThreshold(t, c.n)
         IN  [c |-> [c EXCEPT !.pc = IF Accept(c.low, nt) THEN "done" ELSE "loop",
                              !.result = IF Accept(c.low, nt) THEN High(c.prod)
                                         ELSE c.result],
              t |-> nt]
    [] c.pc = "loop" -> [c |-> DrawStep(c, t, FALSE), t |-> t]
    [] OTHER -> [c |-> Enter(c), t |-> t]

\* A call run from where it is to its end without anything else running.
RECURSIVE RunAlone(_, _)
RunAlone(c, t) ==
  IF c.pc \in {"done", "panicked", "srcpanic"} THEN c
  ELSE LET r == StepCaller(c, t) IN RunAlone(r.c, r.t)

\* UniformUint32(src, n) as a whole, on a source s.
UniformUint32(s, m) == RunAlone(Enter(NewCaller(<<m>>, s)), NoValue)

samplerVars == <<n, src, ref, slow, pc, v, prod, low, threshold, result, draws,
                 calls, tv, trials>>

\* The caller takes the step its position calls for.
Step(self) ==
  LET r == StepCaller(cs[self], stored[ThresholdCell(self)])
  IN  /\ cs' = [cs EXCEPT ![self] = r.c]
      /\ stored' = [stored EXCEPT ![ThresholdCell(self)] = r.t]
      /\ UNCHANGED samplerVars

\* A caller calls UniformUint32 with its next bound.
EnterCall(self) ==
  /\ cs[self].pc \in {"idle", "done"}
  /\ cs[self].k < Len(cs[self].ns)
  /\ Step(self)

\* A caller's unrolled first iteration.
CallerFirstDraw(self) == cs[self].pc = "first" /\ Step(self)

\* A caller's threshold := -n % n and the test on it.
CallerComputeThreshold(self) == cs[self].pc = "thresh" /\ Step(self)

\* One iteration of a caller's rejection loop.
CallerLoopDraw(self) == cs[self].pc = "loop" /\ Step(self)

\* TestUintformUint32MatchesSimple, one iteration: uniformUint32_simple on
\* src1, then UniformUint32, which has no n == 0 guard there, on src2.
CallStrict ==
  /\ calls < MaxStrictCalls
  /\ CallWith(FALSE, uniformUint32_simple(ref.src, n), slow)

\* A call of UniformUint32 with no reference run beside it.
CallAlone == calls < MaxCalls /\ CallWith(ZeroBound(n), ref, slow)

\* A call of a variant of UniformUint32 that has no n == 0 guard.
CallUnguarded == calls < MaxCalls /\ CallWith(FALSE, ref, slow)

\* An iteration of the rejection loop, followed up to MaxIter draws.
FollowedLoopDraw == draws < MaxIter /\ LoopDraw

Next == Call \/ FirstDraw \/ ComputeThreshold \/ LoopDraw

NextStrict == CallStrict \/ FirstDraw \/ ComputeThreshold \/ LoopDraw

\* The ascending stream fed to the sampler and to the strict reference.
StrictSpec == InitStrict /\ [][NextStrict]_vars

NextLoop == CallAlone \/ FirstDraw \/ ComputeThreshold \/ FollowedLoopDraw

\* The sampler on a source that never changes its answer.
LoopSpec == InitLoop /\ [][NextLoop]_vars

NextAlone == CallAlone \/ FirstDraw \/ ComputeThreshold \/ LoopDraw

\* Successive calls of the sampler, with nothing run beside it.
AloneSpec == InitFair /\ [][NextAlone]_vars

NextUnguarded == CallUnguarded \/ FirstDraw \/ ComputeThreshold \/ LoopDraw

\* The variants of UniformUint32 without the guard.
UnguardedSpec == InitUnguarded /\ [][NextUnguarded]_vars

NextCallers ==
  \E self \in Callers :
    \/ EnterCall(self)
    \/ CallerFirstDraw(self)
    \/ CallerComputeThreshold(self)
    \/ CallerLoopDraw(self)

\* The parallel tests: every interleaving of the callers' steps.
ConcSpec == InitConc /\ [][NextCallers]_vars

\* Successive calls with different bounds.
SeqSpec == InitSeq /\ [][NextCallers]_vars

Spec == Init /\ [][Next]_vars

NextExhaust == StartTrial \/ EndTrial \/ FirstDraw \/ ComputeThreshold \/ LoopDraw

ExhaustSpec == InitExhaust /\ [][NextExhaust]_vars

\* The sampler is never suspended for ever: a call that can take a step
\* takes it.
FairSpec ==
  /\ InitFair /\ [][Next]_vars
  /\ WF_vars(FirstDraw) /\ WF_vars(ComputeThreshold) /\ WF_vars(LoopDraw)

TypeOK ==
  /\ n \in Draws
  /\ pc \in {"idle", "first", "thresh", "loop", "done", "panicked", "srcpanic"}
  /\ v \in Draws
  /\ low \in Draws
  /\ threshold \in Draws \cup {NoValue}
  /\ result \in Draws \cup {NoValue}
  /\ draws \in 0 .. ((MaxCalls + MaxIter) * TwoW)
  /\ calls \in 0 .. (MaxCalls + MaxStrictCalls)
  /\ tv \in 0 .. TwoW
  /\ Len(trials) = tv

(***************************************************************************)
(* Properties.                                                             *)
(***************************************************************************)

\* n is a power of two.
IsPow2(m) == \E k \in 0 .. NumBits : m = Pow2(k)

\* buckets[i] of testUniformUint: the first draws tried so far that were
\* accepted on the first try (callCount 1) with result i.
buckets(i) ==
  Cardinality({x \in 1 .. Len(trials) : trials[x].callCount = 1 /\ trials[x].u = i})

\* C1 (range): whenever a call has returned, for whatever n >= 1 and whatever
\* the source produced, the value r it returned satisfies 0 <= r < n.
RangeProperty == pc = "done" => (n >= 1 /\ 0 <= result /\ result < n)

\* A call that returned the largest value, n - 1, after a rejected draw.
RangeWitness == pc = "done" /\ n = 5 /\ draws = 2 /\ result = 4

\* C2 (exact uniformity): once the exhaustive test has tried all 2^W first
\* draws for its n, each integer of [0, n) has been returned on the first try
\* exactly floor(2^W / n) times.
ExactUniformity ==
  tv = TwoW => \A i \in 0 .. (n - 1) : buckets(i) = TwoW \div n

\* The test completed for n = 3, with some first draws rejected.
ExactUniformityWitness ==
  /\ tv = TwoW /\ n = 3
  /\ buckets(2) = TwoW \div 3
  /\ \E x \in 1 .. Len(trials) : trials[x].callCount = 2

\* C3 (zero bound): once the sampler has been called with n = 0 the call has
\* panicked: it has returned no value and never will, whatever the source.
ZeroBoundFailure ==
  (n = 0 /\ calls > 0) => (pc = "panicked" /\ result = NoValue /\ calls = 1)

\* A call with n = 0 on a source that had values to give.
ZeroBoundWitness ==
  n = 0 /\ pc = "panicked" /\ src.kind = "test" /\ Len(src.vs) = MaxDraws

\* C4 (equivalence to uniformUint32Simple): after any number of successive
\* calls on the same stream, a call of the sampler that has returned has
\* returned what the reference loop returned and left its source where the
\* reference left its own; a call the source's panic ended did so where the
\* reference's was ended.
MatchesSimple ==
  /\ pc = "done" => (ref.status = "returned" /\ result = ref.out /\ src = ref.src)
  /\ pc = "srcpanic" => (ref.status = "panicked" /\ src = ref.src)

\* A second call on the same stream that returned after a rejected draw.
MatchesSimpleWitness ==
  pc = "done" /\ calls >= 2 /\ draws >= 2 /\ threshold > 0

\* slowBuckets[i]: the same count for the straightforward algorithm.
slowBuckets(i) ==
  Cardinality({x \in 1 .. Len(trials) : trials[x].scallCount = 1 /\ trials[x].su = i})

\* The first draws tried so far that the sampler rejected.
rejected == {x \in 1 .. Len(trials) : trials[x].callCount > 1}

PowerOfTwoExact ==
  IsPow2(n) => (pc # "loop" /\ draws <= 1 /\ (pc = "done" => draws = 1))

\* A call with n = 4 whose draw gave low < n, so that the threshold decided.
PowerOfTwoExactWitness ==
  pc = "done" /\ n = 4 /\ threshold = 0 /\ draws = 1 /\ calls = 2

\* A draw the rejection rule accepts: (x*m) mod 2^W >= 2^W mod m.
Acceptable(x, m) == (x * m) % TwoW >= TwoW % m

\* The source still has an acceptable draw to give before it fails: a value
\* left in vs, or any value at all for the descending source, which goes
\* through every uint32 for ever.
AcceptAhead ==
  IF src.kind = "test"
    THEN \E j \in (src.callCount + 1) .. Len(src.vs) : Acceptable(src.vs[j], n)
    ELSE \E x \in Draws : Acceptable(x, n)

\* C7 (termination): a call with valid n whose source goes on to yield a draw
\* with low >= 2^W mod n eventually returns.
Termination == (pc = "first" /\ AcceptAhead) ~> (pc = "done")

\* A call that returned after rejecting a draw.
TerminationWitness == pc = "done" /\ draws = 2 /\ threshold > 0 /\ low >= threshold

\* C8 (rejection probability): of the 2^W possible draw values, those
\* rejected are strictly fewer than half, for every n.
RejectionUnderHalf == tv = TwoW => 2 * Cardinality(rejected) < TwoW

\* The test completed for n = 5, with 2^W mod 5 rejected draws.
RejectionUnderHalfWitness ==
  tv = TwoW /\ n = 5 /\ Cardinality(rejected) = TwoW % 5

\* C9 (rejection rule): a first draw x makes the sampler consume a further
\* draw exactly when (x*n) mod 2^W < 2^W mod n, and is otherwise the only
\* draw of the call; for n = 5 where 2^W mod 5 = 1 (as at W = 32) the
\* rejected draws are those with (x*5) mod 2^W = 0.
RejectionRule ==
  /\ \A x \in 1 .. Len(trials) :
       trials[x].callCount = IF ((x - 1) * n) % TwoW < TwoW % n THEN 2 ELSE 1
  /\ (n = 5 /\ TwoW % 5 = 1) =>
       \A x \in 1 .. Len(trials) :
         (trials[x].callCount = 2) <=> (((x - 1) * 5) % TwoW = 0)

\* The test completed for n = 5 with a rejected first draw other than 0 and
\* an accepted one whose low is below n.
RejectionRuleWitness ==
  /\ tv = TwoW /\ n = 5
  /\ \E x \in 2 .. Len(trials) : trials[x].callCount = 2
  /\ \E x \in 1 .. Len(trials) :
       trials[x].callCount = 1 /\ ((x - 1) * 5) % TwoW < 5

\* C10 (source failure): once the source has panicked on a draw, the first
\* of a call or a later one, the call is over with no value returned, and
\* nothing happens any more: no retry, no further draw.
SourceFailurePropagates ==
  /\ [](src.panicked => (pc = "srcpanic" /\ result = NoValue))
  /\ [][src.panicked => UNCHANGED vars]_vars

\* The source failed on the draw after a rejected one.
SourceFailureWitness ==
  src.panicked /\ pc = "srcpanic" /\ draws >= 1 /\ threshold > 0

\* The draws a caller's current call has consumed from its source.
Consumed(c) == SubSeq(c.src.vs, c.src.callCount - c.draws + 1, c.src.callCount)

\* A call that is over ended as the call a has: the same return or panic, the
\* same value, the same number of draws.
SameOutcome(c, a) == c.pc = a.pc /\ c.result = a.result /\ c.draws = a.draws

\* C11 (no interference): whatever the interleaving of two parallel callers,
\* each on a source of its own, a caller whose call is over has the value,
\* the number of draws and the source left behind that the same call has
\* when it runs alone on that source.
NoInterference ==
  \A self \in Callers :
    cs[self].pc \in {"done", "panicked", "srcpanic"} =>
      LET alone == UniformUint32(TestSource(cs[self].src.vs), cs[self].ns[1])
      IN  SameOutcome(cs[self], alone) /\ cs[self].src = alone.src

\* Both callers returned after a rejected first draw, with different bounds
\* and different thresholds.
NoInterferenceWitness ==
  /\ \A self \in Callers : cs[self].pc = "done" /\ cs[self].draws = 2
  /\ cs[1].n # cs[2].n
  /\ stored[1] # stored[2]
  /\ stored[1] > 0 /\ stored[2] > 0

\* C12 (statelessness): a call that is over, whatever calls came before it,
\* ended as a first call with the same n on a source holding just the draws
\* it consumed does: same value, same number of draws.
Stateless ==
  \A self \in Callers :
    cs[self].pc \in {"done", "srcpanic"} =>
      SameOutcome(cs[self], UniformUint32(TestSource(Consumed(cs[self])), cs[self].n))

\* A second call returned on its threshold test after a first call, with
\* another n and another threshold, had rejected a draw.
StatelessWitness ==
  /\ cs[1].k = 2 /\ cs[1].pc = "done" /\ cs[1].draws = 1
  /\ cs[1].ns[1] # cs[1].ns[2]
  /\ cs[1].low < cs[1].n
  /\ cs[1].src.callCount = 3
  /\ TwoW % cs[1].ns[1] > cs[1].low

\* C13 (n = 1): with n = 1 the threshold, when it is computed, is 0; the
\* rejection loop is never entered; a call that returned consumed exactly one
\* draw and returned 0.
BoundOne ==
  n = 1 =>
    /\ Threshold(n) = 0
    /\ threshold \in {NoValue, 0}
    /\ pc # "loop"
    /\ pc = "done" => (draws = 1 /\ result = 0)

\* A call with n = 1 returned on the threshold test: its draw was 0, the one
\* draw the fast check leaves to the threshold.
BoundOneWitness ==
  n = 1 /\ pc = "done" /\ threshold = 0 /\ low = 0 /\ result = 0 /\ draws = 1

\* The values Int63 may return: 0 <= x < 2^(2W-1), 2^63 at W = 32.
Int63Values == 0 .. (Pow2(2 * NumBits - 1) - 1)

\* C14 (wider-source adaptor): randUint32 maps every Int63 value x to
\* floor(x / 2^(W-1)), a value of [0, 2^W - 1]; every draw of the sampler
\* takes exactly one value from the caller's test source, and the value the
\* sampler holds after a draw is the v the test source was built from.
TopBitsAdaptor ==
  /\ [](\A x \in Int63Values :
          randUint32(x) = x \div Pow2(NumBits - 1) /\ randUint32(x) \in Draws)
  /\ [](\A self \in Callers :
          cs[self].draws > 0 => cs[self].v = cs[self].src.vs[cs[self].src.callCount])
  /\ [][\A self \in Callers :
          cs'[self].src.callCount =
            cs[self].src.callCount + (IF cs'[self].draws > cs[self].draws THEN 1 ELSE 0)]_vars

\* The second draw of a call came back as the largest 32-bit value, top bit
\* set, after a first draw that was not 0.
TopBitsAdaptorWitness ==
  /\ cs[1].draws = 2 /\ cs[1].src.callCount >= 2
  /\ cs[1].v = TwoW - 1 /\ cs[1].src.vs[cs[1].src.callCount] = TwoW - 1
  /\ cs[1].src.vs[cs[1].src.callCount - 1] > 0

\* The first draws that fast-accept check 1 resolves for the current n.
fastAccepted == {d \in Draws : FastAccept(Low(Prod(d, n)), n)}

\* C15 as stated: for n > 2^(W-1), more than half of the 2^W first-draw
\* values have low >= n.
FastCheckMajority == 2 * n > TwoW => 2 * Cardinality(fastAccepted) > TwoW

\* C15 (amended): for every valid n exactly 2^W - n first-draw values have
\* low >= n, which is more than half of them when n < 2^(W-1) and fewer than
\* half when n > 2^(W-1); a call returning on such a draw has computed no
\* threshold.
FastCheckCount ==
  /\ Cardinality(fastAccepted) = TwoW - n
  /\ 2 * n < TwoW => 2 * Cardinality(fastAccepted) > TwoW
  /\ 2 * n > TwoW => 2 * Cardinality(fastAccepted) < TwoW
  /\ (pc = "done" /\ draws = 1 /\ v \in fastAccepted) => threshold = NoValue

\* A call with n > 2^(W-1) returned on the fast check, in a test where other
\* first draws needed the threshold.
FastCheckCountWitness ==
  /\ 2 * n > TwoW
  /\ pc = "done" /\ draws = 1 /\ v \in fastAccepted /\ threshold = NoValue
  /\ \E x \in 1 .. Len(trials) : trials[x].callCount = 2

\* C16 (threshold identity): for every n >= 1 the threshold as the code
\* computes it, (-n mod 2^W) mod n, is 2^W mod n, and so is the threshold a
\* call holds once it has computed it.
ThresholdIdentity ==
  /\ n >= 1 => Threshold(n) = TwoW % n
  /\ threshold # NoValue => threshold = TwoW % n

\* A call in its rejection loop holds a threshold that -n alone, without the
\* remainder, would not have given.
ThresholdIdentityWitness ==
  pc = "loop" /\ threshold = TwoW % n /\ threshold > 0 /\ Neg(n) # threshold

\* C17 (threshold below n): for every n >= 1 the threshold is below n, so a
\* call that returned on fast-accept check 1 returned a draw whose low also
\* passes the threshold test.
ThresholdBelowBound ==
  /\ n >= 1 => Threshold(n) < n
  /\ threshold # NoValue => threshold < n
  /\ (pc = "done" /\ draws = 1 /\ threshold = NoValue) =>
       (low >= n /\ Accept(low, Threshold(n)))

\* A call returned on the fast check for an n with a threshold other than 0.
ThresholdBelowBoundWitness ==
  /\ pc = "done" /\ draws = 1 /\ threshold = NoValue
  /\ low >= n /\ Threshold(n) > 0

\* C18 (lazy threshold): within a call the threshold is assigned at most
\* once, after a first draw with low < n and before any other draw; the loop
\* runs on that value, which no draw of it changes; a call that returned on
\* a first draw with low >= n never assigned it.
ThresholdOnce ==
  /\ [][threshold' # threshold =>
          \/ pc \in {"idle", "done"} /\ threshold' = NoValue
          \/ /\ pc = "thresh" /\ threshold = NoValue
             /\ draws = 1 /\ low < n /\ draws' = draws]_vars
  /\ [](pc = "thresh" => (threshold = NoValue /\ draws = 1 /\ low < n))
  /\ [](pc = "loop" => (threshold # NoValue /\ ~Accept(low, threshold)))
  /\ []((pc = "done" /\ draws = 1 /\ low >= n) => threshold = NoValue)

\* A call returned on its second draw, tested against the threshold it
\* computed after the first.
ThresholdOnceWitness ==
  /\ pc = "done" /\ draws = 2 /\ threshold = Threshold(n) /\ threshold > 0
  /\ low < n

\* The j-th draw the current call consumed, read back from its source.
drawn(j) ==
  IF src.kind = "test" THEN src.vs[src.callCount - draws + j]
  ELSE (src.i + draws - j) % TwoW

\* C19 (first accepted draw): a call that returned consumed k rejected draws
\* and then one accepted draw v, nothing more, and returned what a call whose
\* one and first draw is v returns.
ReturnsAtFirstAccepted ==
  pc = "done" =>
    LET first == UniformUint32(TestSource(<<drawn(draws)>>), n)
    IN  /\ draws >= 1
        /\ \A j \in 1 .. (draws - 1) : ~Acceptable(drawn(j), n)
        /\ Acceptable(drawn(draws), n)
        /\ first.pc = "done" /\ first.draws = 1
        /\ result = first.result

\* A call returned on its second draw after rejecting a first draw other
\* than 0.
ReturnsAtFirstAcceptedWitness ==
  pc = "done" /\ draws = 2 /\ drawn(1) # 0 /\ drawn(2) # drawn(1) /\ result > 0

\* computeVStart: ceil(i * 2^W / n), as floor((i * 2^W + (n - 1)) / n).
computeVStart(i, m) == (i * TwoW + (m - 1)) \div m

\* The first draws the exhaustive test saw accepted with result i.
acceptedWith(i) ==
  {x - 1 : x \in {y \in 1 .. Len(trials) : trials[y].callCount = 1 /\ trials[y].u = i}}

\* C20 (monotone result ranges): computeVStart(0, n) = 0, computeVStart(n, n)
\* = 2^W and a draw d has high word i exactly when computeVStart(i, n) <= d <
\* computeVStart(i+1, n); and once the exhaustive test has tried every first
\* draw, those accepted with result i are floor(2^W / n) consecutive values
\* ending at computeVStart(i+1, n) - 1 and starting at computeVStart(i, n) or
\* one above.
MonotoneRanges ==
  /\ computeVStart(0, n) = 0 /\ computeVStart(n, n) = TwoW
  /\ \A i \in 0 .. (n - 1), d \in Draws :
       (High(Prod(d, n)) = i) <=>
         (computeVStart(i, n) <= d /\ d < computeVStart(i + 1, n))
  /\ tv = TwoW =>
       \A i \in 0 .. (n - 1) :
         \E lo \in {computeVStart(i, n), computeVStart(i, n) + 1} :
           /\ acceptedWith(i) = lo .. (computeVStart(i + 1, n) - 1)
           /\ Cardinality(acceptedWith(i)) = TwoW \div n

\* The exhaustive test completed for an n with a range starting at
\* computeVStart and another starting one above it.
MonotoneRangesWitness ==
  /\ tv = TwoW
  /\ \E i \in 1 .. (n - 1) : computeVStart(i, n) \in acceptedWith(i)
  /\ \E i \in 1 .. (n - 1) :
       computeVStart(i, n) \notin acceptedWith(i) /\ acceptedWith(i) # {}

\* The first draws with high part i that the exhaustive test saw rejected.
rejectedWith(i) ==
  {d \in Draws : /\ d + 1 <= Len(trials)
                 /\ trials[d + 1].callCount = 2
                 /\ High(Prod(d, n)) = i}

\* C21 (one rejected draw per result): once the exhaustive test has tried
\* every first draw, for every i in [0, n) the rejected draws with high part
\* i are none, or the single draw computeVStart(i, n), the smallest draw with
\* that high part.
OneRejectedPerResult ==
  tv = TwoW =>
    \A i \in 0 .. (n - 1) :
      /\ Cardinality(rejectedWith(i)) <= 1
      /\ rejectedWith(i) \subseteq {computeVStart(i, n)}
      /\ \A d \in rejectedWith(i), e \in Draws : High(Prod(e, n)) = i => d <= e

\* The test completed for an n where one result other than 0 has its first
\* draw rejected and another has none rejected.
OneRejectedPerResultWitness ==
  /\ tv = TwoW
  /\ \E i \in 1 .. (n - 1) : rejectedWith(i) = {computeVStart(i, n)}
  /\ \E i \in 1 .. (n - 1) : rejectedWith(i) = {}

\* C22 (extreme draws): in the exhaustive test the first draw 0 is rejected
\* exactly when n is not a power of two; the first draw 2^W - 1 is accepted
\* and returns n - 1; and so does the 2^W - 1 that follows a rejected draw.
ExtremeDraws ==
  /\ Len(trials) >= 1 => (trials[1].callCount = 2 <=> ~IsPow2(n))
  /\ Len(trials) = TwoW =>
       (trials[TwoW].callCount = 1 /\ trials[TwoW].u = n - 1)
  /\ \A x \in 1 .. Len(trials) : trials[x].callCount = 2 => trials[x].u = n - 1

\* The test completed for an n above 2^(W-1), where the low part of the
\* draw 2^W - 1 is below n and equals the threshold, and 0 was rejected.
ExtremeDrawsWitness ==
  /\ tv = TwoW /\ 2 * n > TwoW /\ ~IsPow2(n)
  /\ trials[1].callCount = 2 /\ trials[TwoW].u = n - 1
  /\ Low(Prod(TwoW - 1, n)) = Threshold(n)

\* C23 (power-of-two result): for n = 2^k, 0 <= k < W, a threshold that is
\* computed is 0, no first draw is rejected and the value returned for the
\* draw d is d >> (W - k), its top k bits; for n = 2^(W-1) that is d >> 1.
PowerOfTwoResult ==
  \A k \in 0 .. (NumBits - 1) :
    n = Pow2(k) =>
      /\ Threshold(n) = 0
      /\ threshold \in {NoValue, 0}
      /\ \A x \in 1 .. Len(trials) :
           /\ trials[x].callCount = 1
           /\ trials[x].u = (x - 1) \div Pow2(NumBits - k)
           /\ k = NumBits - 1 => trials[x].u = (x - 1) \div 2

\* The test completed for n = 2^(W-1): the draw 3 returned 1, and the last
\* trial's call returned the top bits of 2^W - 1.
PowerOfTwoResultWitness ==
  /\ n = Pow2(NumBits - 1) /\ tv = TwoW
  /\ trials[4].u = 1 /\ trials[1].u = 0 /\ trials[TwoW].u = n - 1

\* The source only ever yields a value that a call with this n rejects.
onlyRejected == src.kind = "constant" /\ n >= 1 /\ ~Acceptable(src.i, n)

\* C24 (no iteration cap): on a source that only ever yields a rejected
\* value the call is never over: it does not return, fail or hold a value;
\* every iteration of its loop draws once more and stays in the loop, and
\* another iteration is always possible.
NoIterationCap ==
  /\ [](onlyRejected =>
          (pc \notin {"done", "panicked", "srcpanic"} /\ result = NoValue))
  /\ [][(onlyRejected /\ pc = "loop") =>
          (pc' = "loop" /\ draws' = draws + 1 /\ result' = NoValue)]_vars
  /\ []((onlyRejected /\ pc = "loop" /\ draws < MaxIter) => ENABLED FollowedLoopDraw)

\* A call still in its loop after every draw followed, on a source that
\* yields a value other than 0.
NoIterationCapWitness ==
  onlyRejected /\ pc = "loop" /\ draws = MaxIter /\ src.i > 0 /\ v = src.i

\* C25 (match with the strict reference): fed the ascending stream, every
\* call of UniformUint32 that has returned has returned the value
\* uniformUint32_simple returned for the same call, for every n >= 1.
MatchesStrict ==
  pc = "done" => (ref.status = "returned" /\ result = ref.out)

\* The source has given out exactly one more value than before.
advanced ==
  IF src.kind = "test"
    THEN src'.vs = src.vs /\ src'.callCount = src.callCount + 1
    ELSE src'.i = (src.i + TwoW - 1) % TwoW

\* A call is running, and is at a statement that draws.
running == pc \in {"first", "thresh", "loop"}
drawing == pc \in {"first", "loop"}

\* Nothing changes outside the call's locals and the source.
outsideUnchanged == UNCHANGED <<n, ref, slow, calls, tv, trials, cs, stored>>

\* C26 (side effects): n never changes; while a call runs nothing changes
\* outside its locals except the source; the source changes only by a draw
\* of the call (or by failing on one), each draw takes exactly one value
\* from it, and a call that returned has drawn at least once.
FrameEffect ==
  /\ [][n' = n]_vars
  /\ [][running => outsideUnchanged]_vars
  /\ [][src' # src => (drawing /\ (draws' = draws + 1 \/ src'.panicked))]_vars
  /\ [][draws' = draws + 1 => advanced]_vars
  /\ [](pc = "done" => draws >= 1)

\* A second call returned on the third value of a source from which the
\* first call had drawn two.
FrameEffectWitness ==
  /\ pc = "done" /\ calls = 2 /\ draws = 1
  /\ src.kind = "test" /\ src.callCount = 3 /\ ~src.panicked

\* C27 (product decomposition): for every draw d and the n of the call the
\* product the code computes is d * n itself, below 2^(2W), and it splits as
\* high * 2^W + low with both parts W-bit values; the call's own prod, low
\* and returned value are those of its last draw.
ProductDecomposition ==
  /\ \A d \in Draws :
       LET p == Prod(d, n)
       IN  /\ p = d * n /\ p < TwoW * TwoW
           /\ High(p) * TwoW + Low(p) = p
           /\ High(p) \in Draws /\ Low(p) \in Draws
           /\ High(p) = (d * n) \div TwoW /\ Low(p) = (d * n) % TwoW
  /\ draws > 0 => (prod = v * n /\ low = prod % TwoW)
  /\ pc = "done" => result * TwoW + low = v * n

\* A call returned a value other than 0 from a product of more than W bits
\* with a low part other than 0.
ProductDecompositionWitness ==
  pc = "done" /\ prod >= TwoW /\ result > 0 /\ low > 0 /\ draws = 2

\* The first draws that reach threshold := -n % n for the current n.
thresholdNeeded == Draws \ fastAccepted

\* C28 (threshold needed for n first draws): for every valid n exactly n of
\* the 2^W first-draw values have low < n, one in each result group, and the
\* exhaustive test's calls compute the threshold for those first draws and
\* for no other.
ThresholdForNDraws ==
  /\ Cardinality(thresholdNeeded) = n
  /\ Cardinality(fastAccepted) = TwoW - n
  /\ \A i \in 0 .. (n - 1) :
       Cardinality({d \in thresholdNeeded : High(Prod(d, n)) = i}) = 1
  /\ (pc \in {"done", "loop"} /\ draws >= 1) =>
       (threshold # NoValue <=> src.vs[1] \in thresholdNeeded)

\* A call of the test returned on the threshold test, for a first draw other
\* than 0 and a threshold other than 0.
ThresholdForNDrawsWitness ==
  /\ pc = "done" /\ draws = 1 /\ threshold # NoValue /\ threshold > 0
  /\ src.vs[1] > 0 /\ src.vs[1] \in thresholdNeeded

\* C29 (n = 0 fails before any draw): a call with n = 0 is over as soon as
\* it is made, failed, with no draw consumed and the source exactly as it
\* was before the call; the step that fails leaves the source alone.
ZeroBoundBeforeDraw ==
  /\ []((n = 0 /\ pc # "idle") =>
          /\ pc = "panicked" /\ draws = 0 /\ result = NoValue
          /\ src = ref.src /\ ~src.panicked /\ src.callCount = 0)
  /\ [][pc' = "panicked" => (n = 0 /\ src' = src /\ draws' = 0)]_vars

\* A call with n = 0 failed on a test source that had two values to give.
ZeroBoundBeforeDrawWitness ==
  /\ n = 0 /\ pc = "panicked" /\ calls = 1
  /\ src.kind = "test" /\ Len(src.vs) = 2 /\ src.callCount = 0

\* C30 (unguarded variants, n = 0): in a variant without the guard a call
\* with n = 0 never reaches threshold := -n % n nor the loop, and never fails
\* by itself; when it returns it has consumed exactly one draw and returns 0.
UnguardedZero ==
  n = 0 =>
    /\ pc \notin {"thresh", "loop", "panicked"}
    /\ threshold = NoValue
    /\ pc = "done" => (draws = 1 /\ result = 0 /\ prod = 0 /\ low = 0)
    /\ pc = "srcpanic" => (draws = 0 /\ src.panicked)

\* A second call with n = 0 returned 0 from a draw other than 0.
UnguardedZeroWitness ==
  n = 0 /\ pc = "done" /\ calls = 2 /\ draws = 1 /\ v > 0 /\ result = 0

====
